---------------------------- MODULE Spec2Model ----------------------------
(***************************************************************************)
(* A model of python-solr's result paginator (SolrResultsPaginator) and    *)
(* batched writer (SolrBatchAdder), src/pythonsolr/pythonsolr.py, together *)
(* with the parts of the pysolr clients (Solr, SolrJson) they call,        *)
(* src/pythonsolr/pysolr.py.                                               *)
(*                                                                         *)
(* Every method call is one action.  What the server answers to each       *)
(* request a call issues is an input of the action: a sequence of          *)
(* outcomes, consumed in the order the requests are issued.                *)
(***************************************************************************)
EXTENDS Integers, Sequences, FiniteSets, TLC

\* ------------------------------------------------------------------ bounds
\* Largest number of groups in the answer to a grouped query.
MaxGroups == 2
\* Largest number of documents the static index holds.
MaxDocs == 3
\* Largest "rows" (page size) a paginator is configured with.
MaxRows == 2
\* Largest max_index ceiling a paginator is configured with.
MaxCeiling == 1
\* Calls (next, len) made on the paginator instances, all together.
MaxCalls == 5
\* Search requests of one paginator instance that fail.
MaxFailures == 1
\* Paginator instances alive at once (the original and the one __iter__ makes).
MaxInstances == 2
\* Largest batch_size of a SolrBatchAdder.
MaxBatchSize == 2
\* Documents handed to a SolrBatchAdder over its life.
MaxAdds == 3
\* Longest iterable handed to add_multi.
MaxMulti == 2
\* Calls (add_one, add_multi, flush) made on a SolrBatchAdder, the flush
\* that ends its with-block being the last of them.
MaxOps == 4
\* Explicit flush() calls on a SolrBatchAdder.
MaxFlushes == 1
\* Update requests the server fails over the life of a SolrBatchAdder.
MaxFailedRequests == 3

\* ------------------------------------------------------------------- state
VARIABLES
    serverDocs,   \* the documents matching the query, in server order
    rows,         \* default_params["rows"]: the page size of every search
    numFound,     \* numFound as each server reports it in the answer to a
                  \* search, by the start of the search
    pag,          \* the SolrResultsPaginator instances, in order of creation
    adder,        \* the SolrBatchAdder: solr, batch, batch_len, batch_size, auto_commit
    lastFlush,    \* the flush() the most recent call ran, if it ran one: the batch
                  \* it found, the requests it sent, how it ended
    lastOp,       \* the most recent call on the adder and how it ended
    stats,        \* counts of the calls made on the adder and of the requests sent
    scope,        \* the with-block of solr_batch_adder around the adder: "open"
                  \* while its body runs, then how the body was left
    deleted,      \* the most recent call on a client, if a delete(): its
                  \* arguments, the requests it sent, how it ended
    shaped,       \* the most recent call on a client, if a search or a grouped
                  \* query: the answer and the Results / GroupedResults built
    threads,      \* two threads that call the one adder without a lock: the
                  \* call of each, the statement it is at, its local value
    race          \* what those threads have sent, and whether their calls
                  \* overlapped

srvVars == <<serverDocs, rows, numFound>>
pagVars == <<srvVars, pag>>
addVars == <<adder, lastFlush, lastOp, stats, scope>>
cliVars == <<deleted, shaped>>
thrVars == <<threads, race>>
vars == <<serverDocs, rows, numFound, pag, adder, lastFlush, lastOp, stats, scope,
          deleted, shaped, threads, race>>
\* What the calls on a paginator, on an adder, on a client leave alone.
exceptPag == <<addVars, cliVars, thrVars>>
exceptAdd == <<pagVars, cliVars, thrVars>>
exceptCli == <<pagVars, addVars, thrVars>>

\* max_index=None, the default of SolrResultsPaginator.__init__.
None == -1

Min(a, b) == IF a < b THEN a ELSE b

\* What a search request can come to: a page, or SolrError / a socket error.
SearchOutcomes == {"ok", "error"}

\* ------------------------------------------------------- SolrResultsPaginator
\* Solr.search and Results.__init__ against the static index: the page of at
\* most `rows` documents from offset `start`, and numFound.
search_counting_page(solr, start) ==
    LET docs == SubSeq(serverDocs, start + 1, Min(start + rows, Len(serverDocs)))
    IN  [docs |-> docs, hits |-> Len(docs)]
search_up_to_hits(solr, start) ==
    LET upto == Min(Min(start + rows, Len(serverDocs)), numFound[solr][start])
    IN  [docs |-> SubSeq(serverDocs, start + 1, upto),
         hits |-> numFound[solr][start]]
search(solr, start) ==
    [docs |-> SubSeq(serverDocs, start + 1, Min(start + rows, Len(serverDocs))),
     hits |-> numFound[solr][start]]

\* The servers a paginator can be given as `solr`: both hold the same
\* documents; the first reports numFound as it is, the second as it likes.
Servers == {1, 2}
\* The offsets a search can start at.
Offsets == 0..(MaxDocs + 1)
\* A server that reports the number of matching documents.
Truthful == [k \in Offsets |-> Len(serverDocs)]

\* SolrResultsPaginator.__init__.  page, item_iter and cursor are attributes
\* the constructor does not set; they are read only after a fetch has set them.
Paginator(max_index) ==
    [solr |-> 1, default_start |-> None,
     initialized |-> FALSE, exhausted |-> FALSE, index |-> 0,
     max_index |-> max_index,
     page |-> [docs |-> <<>>, hits |-> 0], item_iter |-> 0, cursor |-> 0,
     \* history, not program state
     fetches |-> <<>>, returned |-> <<>>, calls |-> 0, lens |-> 0, origin |-> 0,
     call |-> [op |-> "new", exc |-> "none", fetchFailed |-> FALSE,
               preIndex |-> 0, preExhausted |-> FALSE, nFetches |-> 0]]

\* query_params = dict(self.default_params); query_params["start"] = self.index
\* (default_start: the "start" of default_params, None when it has none)
QueryStartOffByOne(p) == p.index + 1
QueryStartOfDefaults(p) ==
    IF p.default_start # None THEN p.default_start ELSE p.index
QueryStart(p) ==
    LET query_params == [start |-> p.default_start]
    IN  [query_params EXCEPT !.start = p.index].start

\* move_to_next_page: one search request with start = index; on success the
\* page and a fresh generator over its docs replace the old ones, on failure
\* the exception leaves before either is assigned.
move_to_next_page(p, out) ==
    LET q == [p EXCEPT !.fetches = Append(@, [start |-> QueryStart(p), out |-> out,
                                              at |-> Len(p.returned)])]
    IN  IF out = "ok"
        THEN [p |-> [q EXCEPT !.page = search(p.solr, QueryStart(p)),
                              !.item_iter = 0],
              exc |-> "none"]
        ELSE [p |-> q, exc |-> "SolrError"]

\* _init_if_needed
_init_if_needed(p, out) ==
    IF p.initialized
    THEN [p |-> p, exc |-> "none"]
    ELSE LET m == move_to_next_page(p, out)
         IN  IF m.exc = "none"
             THEN [p |-> [m.p EXCEPT !.initialized = TRUE], exc |-> "none"]
             ELSE m

\* _check_max_index
_check_max_index_inclusive(p) ==
    IF p.max_index = None THEN "none"
    ELSE IF p.index >= p.max_index THEN "StopIteration"
    ELSE "none"
_check_max_index(p) ==
    IF p.max_index = None THEN "none"
    ELSE IF p.index > p.max_index THEN "StopIteration"
    ELSE "none"

\* except: ... (a bare except clause: it catches the failed assertion and
\* every error of the search alike)
Caught(exc) == exc # "none"

\* _next: take the next item of the page's generator; when it is used up,
\* fetch the next page and take its first item.
RECURSIVE _next(_, _)
_next(p, out) ==
    IF p.item_iter < Len(p.page.docs)
    THEN [p |-> [p EXCEPT !.cursor = p.page.docs[p.item_iter + 1],
                          !.item_iter = @ + 1],
          exc |-> "none"]
    ELSE LET m == move_to_next_page(p, out)
             e == IF m.exc # "none" THEN m.exc
                  ELSE IF Len(m.p.page.docs) = 0 THEN "AssertionError"
                  ELSE "none"
         IN  IF e = "none" THEN _next(m.p, out)
             ELSE IF Caught(e)
             THEN [p |-> [m.p EXCEPT !.exhausted = TRUE], exc |-> "StopIteration"]
             ELSE [p |-> m.p, exc |-> e]

\* next(): the paginator after the call, and how the call ended.  out1 is the
\* outcome of the search _init_if_needed issues, out2 of the one _next issues.
paginator_next_ceiling_exhausts(p, out1, out2) ==
    IF _check_max_index(p) # "none"
    THEN [p |-> [p EXCEPT !.exhausted = TRUE], exc |-> _check_max_index(p)]
    ELSE LET i == _init_if_needed(p, out1)
         IN  IF i.exc # "none" THEN i
             ELSE LET n == _next(i.p, out2)
                  IN  IF n.exc # "none" THEN n
                      ELSE [p |-> [n.p EXCEPT !.index = @ + 1], exc |-> "none"]
paginator_next(p, out1, out2) ==
    IF _check_max_index(p) # "none"
    THEN [p |-> p, exc |-> _check_max_index(p)]
    ELSE LET i == _init_if_needed(p, out1)
         IN  IF i.exc # "none" THEN i
             ELSE LET n == _next(i.p, out2)
                  IN  IF n.exc # "none" THEN n
                      ELSE [p |-> [n.p EXCEPT !.index = @ + 1], exc |-> "none"]

\* The history of a call: what it returned, what it fetched.
Recorded(p, r, op) ==
    LET new == SubSeq(r.p.fetches, Len(p.fetches) + 1, Len(r.p.fetches))
    IN  [r.p EXCEPT
           !.calls = IF op = "next" THEN @ + 1 ELSE @,
           !.lens = IF op = "len" THEN @ + 1 ELSE @,
           !.returned = IF op = "next" /\ r.exc = "none"
                        THEN Append(@, r.p.cursor) ELSE @,
           !.call = [op |-> op, exc |-> r.exc,
                     fetchFailed |-> \E k \in 1..Len(new) : new[k].out # "ok",
                     preIndex |-> p.index, preExhausted |-> p.exhausted,
                     nFetches |-> Len(new)]]

\* The search requests of p that failed.
Failures(p) == Cardinality({k \in 1..Len(p.fetches) : p.fetches[k].out # "ok"})

\* The calls made so far on the instances of ps.
RECURSIVE CallsMade(_)
CallsMade(ps) ==
    IF ps = <<>> THEN 0
    ELSE Head(ps).calls + Head(ps).lens + CallsMade(Tail(ps))

\* A caller calls next() on instance i.
next(i) ==
    /\ CallsMade(pag) < MaxCalls
    /\ \E out1 \in SearchOutcomes, out2 \in SearchOutcomes :
         LET r == paginator_next(pag[i], out1, out2)
         IN  /\ Failures(r.p) <= MaxFailures
             /\ pag' = [pag EXCEPT ![i] = Recorded(pag[i], r, "next")]
    /\ UNCHANGED srvVars
    /\ UNCHANGED exceptPag

\* len(paginator): __len__ fetches the first page if none was fetched yet.
len(i) ==
    /\ CallsMade(pag) < MaxCalls
    /\ \E out1 \in SearchOutcomes :
         LET r == _init_if_needed(pag[i], out1)
         IN  /\ Failures(r.p) <= MaxFailures
             /\ pag' = [pag EXCEPT ![i] = Recorded(pag[i], r, "len")]
    /\ UNCHANGED srvVars
    /\ UNCHANGED exceptPag

\* return SolrResultsPaginator(self.solr, self.query, self.default_params):
\* a paginator constructed anew on the query and parameters of p.
restarted_keeping_offset(p) ==
    [Paginator(None) EXCEPT !.index = p.index, !.solr = p.solr,
                            !.default_start = p.default_start]
restarted(p) ==
    [Paginator(None) EXCEPT !.solr = p.solr, !.default_start = p.default_start]

\* iter(paginator): __iter__ of an exhausted paginator makes a new one from
\* solr, query and default_params (origin: the instance it was made from);
\* otherwise it is the paginator itself, and nothing but the history changes.
iter(i) ==
    /\ IF pag[i].exhausted
       THEN /\ Len(pag) < MaxInstances
            /\ pag' = Append(pag, [restarted(pag[i]) EXCEPT !.origin = i])
       ELSE pag' = [pag EXCEPT ![i].call =
                      [op |-> "iter", exc |-> "none", fetchFailed |-> FALSE,
                       preIndex |-> pag[i].index, preExhausted |-> FALSE,
                       nFetches |-> 0]]
    /\ UNCHANGED srvVars
    /\ UNCHANGED exceptPag

\* ------------------------------------------------------- the write clients
\* What an update request can come to: success, socket.timeout, or SolrError.
WriteOutcomes == {"ok", "timeout", "error"}

\* One request to /update as the server sees it, with what it came to.
Request(op, docs, out) == [op |-> op, docs |-> docs, out |-> out]

\* The outcome of the next request: the head of the outcomes left.  A call
\* handed too few outcomes is told "ok" for the requests beyond them; Runs
\* below never lets such a call stand.
Outcome(o) == IF o = <<>> THEN "ok" ELSE o[1]

\* _send_request: the exception a request's outcome raises in the caller.
Raised(out) == IF out = "ok" THEN "none" ELSE out

\* The outcomes left once `used` requests have consumed theirs.
Rest(o, used) == IF used >= Len(o) THEN <<>> ELSE SubSeq(o, used + 1, Len(o))

\* Solr.commit and SolrJson.commit: one commit request.
solr_commit(o) ==
    [reqs |-> <<Request("commit", <<>>, Outcome(o))>>, exc |-> Raised(Outcome(o))]

\* Solr.add: one add request with all of docs, then, if commit, self.commit().
Solr_add(docs, commit, o) ==
    LET a == Request("add", docs, Outcome(o))
    IN  IF Outcome(o) # "ok" THEN [reqs |-> <<a>>, exc |-> Raised(Outcome(o))]
        ELSE IF commit
        THEN LET c == solr_commit(Rest(o, 1))
             IN  [reqs |-> <<a>> \o c.reqs, exc |-> c.exc]
        ELSE [reqs |-> <<a>>, exc |-> "none"]

\* SolrJson.add: one add request with all of docs; commit is not looked at.
SolrJson_add(docs, commit, o) ==
    [reqs |-> <<Request("add", docs, Outcome(o))>>, exc |-> Raised(Outcome(o))]

\* self.solr.add(docs, commit=...) on the client the adder was built on.
solr_add(client, docs, commit, o) ==
    IF client = "Solr" THEN Solr_add(docs, commit, o)
    ELSE SolrJson_add(docs, commit, o)

\* The ids and queries a caller passes to delete(); None: the argument is
\* left out.
Ids == {None, 1, 2}
Queries == {None, 1, 2}

\* Solr.delete: ValueError unless exactly one of id and q is given; then one
\* delete request (by id or by query) and, if commit, self.commit().
Solr_delete_unchecked(id, q, commit, o) ==
    LET d == Request("delete", <<IF id # None THEN [id |-> id] ELSE [q |-> q]>>,
                     Outcome(o))
    IN  IF Outcome(o) # "ok" THEN [reqs |-> <<d>>, exc |-> Raised(Outcome(o))]
        ELSE IF commit
        THEN LET c == solr_commit(Rest(o, 1))
             IN  [reqs |-> <<d>> \o c.reqs, exc |-> c.exc]
        ELSE [reqs |-> <<d>>, exc |-> "none"]
Solr_delete(id, q, commit, o) ==
    IF id = None /\ q = None THEN [reqs |-> <<>>, exc |-> "ValueError"]
    ELSE IF id # None /\ q # None THEN [reqs |-> <<>>, exc |-> "ValueError"]
    ELSE LET d == Request("delete",
                          <<IF id # None THEN [id |-> id] ELSE [q |-> q]>>,
                          Outcome(o))
         IN  IF Outcome(o) # "ok"
             THEN [reqs |-> <<d>>, exc |-> Raised(Outcome(o))]
             ELSE IF commit
             THEN LET c == solr_commit(Rest(o, 1))
                  IN  [reqs |-> <<d>> \o c.reqs, exc |-> c.exc]
             ELSE [reqs |-> <<d>>, exc |-> "none"]

\* SolrJson.delete: the same checks; the delete is a JSON message, sent to
\* /update/json, and the commit is SolrJson.commit.
SolrJson_delete(id, q, commit, o) ==
    IF id = None /\ q = None THEN [reqs |-> <<>>, exc |-> "ValueError"]
    ELSE IF id # None /\ q # None THEN [reqs |-> <<>>, exc |-> "ValueError"]
    ELSE LET d == Request("delete",
                          <<IF id # None THEN [id |-> id] ELSE [q |-> q]>>,
                          Outcome(o))
         IN  IF Outcome(o) # "ok"
             THEN [reqs |-> <<d>>, exc |-> Raised(Outcome(o))]
             ELSE IF commit
             THEN LET c == solr_commit(Rest(o, 1))
                  IN  [reqs |-> <<d>> \o c.reqs, exc |-> c.exc]
             ELSE [reqs |-> <<d>>, exc |-> "none"]

\* No delete() yet.
NoDelete == [client |-> "none", id |-> None, q |-> None, commit |-> FALSE,
             reqs |-> <<>>, exc |-> "none"]

NoShape == [kind |-> "none"]

\* solr.delete(id=..., q=..., commit=...) on either client; o: what the
\* server answers to the requests of the call, in order.
delete ==
    /\ \E client \in {"Solr", "SolrJson"}, id \in Ids, q \in Queries,
          commit \in BOOLEAN, o \in [1..2 -> WriteOutcomes] :
         LET r == IF client = "Solr" THEN Solr_delete(id, q, commit, o)
                  ELSE SolrJson_delete(id, q, commit, o)
         IN  deleted' = [client |-> client, id |-> id, q |-> q, commit |-> commit,
                         reqs |-> r.reqs, exc |-> r.exc]
    /\ shaped' = NoShape
    /\ UNCHANGED exceptCli

\* ------------------------------------------------- Results, GroupedResults
\* A value that may be None.
Null == [null |-> TRUE]
Val(v) == [null |-> FALSE, val |-> v]

\* The decoded answers to a search: the keys the answer holds, and under each
\* key it holds its value (a value under a key it does not hold is not read).
ResultKeys == {"highlighting", "facet_counts", "spellcheck", "response"}
ResultResponses ==
    [keys : SUBSET ResultKeys,
     highlighting : {{}, {"hl"}}, facet_counts : {{}, {"fc"}},
     spellcheck : {{}, {"sc"}}, docs : {<<>>, <<1>>}, numFound : {0, 1}]

\* if self.result.get(key): -- the key is there and its value is not empty
Truthy(resp, key, value) == key \in resp.keys /\ value # {}

\* Results.__init__, for the attributes highlighting, facets, spellcheck,
\* docs and hits.
Results(resp) ==
    [highlighting |-> IF Truthy(resp, "highlighting", resp.highlighting)
                      THEN resp.highlighting ELSE {},
     facets |-> IF Truthy(resp, "facet_counts", resp.facet_counts)
                THEN resp.facet_counts ELSE {},
     spellcheck |-> IF Truthy(resp, "spellcheck", resp.spellcheck)
                    THEN resp.spellcheck ELSE {},
     docs |-> IF "response" \in resp.keys THEN Val(resp.docs) ELSE Val(<<>>),
     hits |-> IF "response" \in resp.keys THEN Val(resp.numFound) ELSE Val(0),
     exc |-> "none"]

\* The decoded answers to a grouped query: with or without the key 'grouped',
\* each group under it with or without the key 'doclist'.
Groups ==
    [has_doclist : BOOLEAN, docs : {<<>>, <<1>>}, numFound : {0, 1}]
GroupedResponses ==
    [has_grouped : BOOLEAN,
     grouped : UNION {[1..n -> Groups] : n \in 0..MaxGroups}]

\* GroupedResults.__init__: self.result.get('grouped') is None when the key
\* is absent, and None has no iteritems; res.get('doclist', {}).get('docs')
\* is None when the group has no doclist.
GroupedResults(resp) ==
    IF ~resp.has_grouped
    THEN [docs |-> <<>>, exc |-> "AttributeError"]
    ELSE [docs |-> [name \in DOMAIN resp.grouped |->
                      LET res == resp.grouped[name]
                      IN  [docs |-> IF res.has_doclist THEN Val(res.docs) ELSE Null,
                           hits |-> IF res.has_doclist THEN Val(res.numFound)
                                    ELSE Null]],
          exc |-> "none"]

\* solr.search(q): return self.result_class(response, decoder=self.decoder)
Results_init ==
    /\ \E resp \in ResultResponses :
         shaped' = [kind |-> "Results", resp |-> resp, out |-> Results(resp)]
    /\ deleted' = NoDelete
    /\ UNCHANGED exceptCli

\* solr.group(q): return GroupedResults(response)
GroupedResults_init ==
    /\ \E resp \in GroupedResponses :
         shaped' = [kind |-> "GroupedResults", resp |-> resp,
                    out |-> GroupedResults(resp)]
    /\ deleted' = NoDelete
    /\ UNCHANGED exceptCli

\* ------------------------------------------------------------ SolrBatchAdder
\* SolrBatchAdder.__init__
SolrBatchAdder(solr, batch_size, auto_commit) ==
    [solr |-> solr, batch |-> <<>>, batch_len |-> 0,
     batch_size |-> batch_size, auto_commit |-> auto_commit]

\* except socket.timeout: the one exception SolrBatchAdder.commit swallows.
commit_swallows_nothing(exc) == FALSE
commit_swallows_all(exc) == TRUE
commit_swallows(exc) == exc = "timeout"

\* SolrBatchAdder.commit
commit(b, o) ==
    LET c == solr_commit(o)
    IN  [reqs |-> c.reqs, exc |-> IF commit_swallows(c.exc) THEN "none" ELSE c.exc]

\* for item in self.batch: try: self.solr.add([item], commit=False) except: log
\* The requests of the one-by-one pass; no exception leaves it.
RECURSIVE one_by_one_abort(_, _, _)
one_by_one_abort(client, items, o) ==
    IF items = <<>> THEN <<>>
    ELSE LET r == solr_add(client, <<Head(items)>>, FALSE, o)
         IN  IF r.exc # "none" THEN r.reqs
             ELSE r.reqs \o one_by_one_abort(client, Tail(items), Rest(o, Len(r.reqs)))
RECURSIVE one_by_one(_, _, _)
one_by_one(client, items, o) ==
    IF items = <<>> THEN <<>>
    ELSE LET r == solr_add(client, <<Head(items)>>, FALSE, o)
         IN  r.reqs \o one_by_one(client, Tail(items), Rest(o, Len(r.reqs)))

\* self.batch = list(); self.batch_len = 0
cleared_length_only(b) == [b EXCEPT !.batch_len = 0]
cleared(b) == [b EXCEPT !.batch = <<>>, !.batch_len = 0]

\* flush: the adder after the call, the requests it sent, the exception that
\* left it ("none": it returned); and, as history, whether the one-by-one
\* fall-back ran and how many requests the batched add call made before it.
flush(b, o) ==
    LET first == solr_add(b.solr, b.batch, b.auto_commit, o)
    IN  IF first.exc = "none"
        THEN [b |-> cleared(b), reqs |-> first.reqs, exc |-> "none",
              fallback |-> FALSE, nfirst |-> Len(first.reqs)]
        ELSE LET o2   == Rest(o, Len(first.reqs))
                 each == one_by_one(b.solr, b.batch, o2)
                 last == IF b.auto_commit THEN commit(b, Rest(o2, Len(each)))
                         ELSE [reqs |-> <<>>, exc |-> "none"]
                 reqs == first.reqs \o each \o last.reqs
             IN  IF last.exc = "none"
                 THEN [b |-> cleared(b), reqs |-> reqs, exc |-> "none",
                       fallback |-> TRUE, nfirst |-> Len(first.reqs)]
                 ELSE [b |-> b, reqs |-> reqs, exc |-> last.exc,
                       fallback |-> TRUE, nfirst |-> Len(first.reqs)]

\* _add_to_batch
_add_to_batch_uncounted(b, doc) == [b EXCEPT !.batch = Append(@, doc)]
_add_to_batch(b, doc) ==
    [b EXCEPT !.batch = Append(@, doc), !.batch_len = @ + 1]

\* if self.batch_len == self.batch_size: the test _append_commit flushes on.
at_batch_size_early(b) == b.batch_len + 1 >= b.batch_size
at_batch_size_late(b) == b.batch_len > b.batch_size
at_batch_size(b) == b.batch_len = b.batch_size

\* No flush() yet, no call yet, nothing counted yet.
NoFlush == [pre |-> <<>>, post |-> <<>>, reqs |-> <<>>, exc |-> "none",
            fallback |-> FALSE, nfirst |-> 0, ran |-> FALSE]
NoOp == [op |-> "new", exc |-> "none", preLen |-> 0, flushed |-> FALSE]
NoStats == [add_one |-> 0, add_multi |-> 0, flush |-> 0, exit |-> 0, docs |-> 0,
            auto |-> 0, batched |-> 0, failed |-> 0, sent |-> <<>>]

\* The adder with its history: st.adder, st.lastFlush, st.stats; and st.log,
\* the requests sent since the call under way began.
Current == [adder |-> adder, lastFlush |-> lastFlush, stats |-> stats,
            log |-> <<>>]

\* The sequences of outcomes that extend o and give every request of
\* flush(b, .) its outcome, and no more: one per way the server can answer
\* while failing at most mayFail further requests.
RECURSIVE Runs(_, _, _)
Runs(b, o, mayFail) ==
    IF Len(flush(b, o).reqs) <= Len(o) THEN {o}
    ELSE UNION { Runs(b, Append(o, x), IF x = "ok" THEN mayFail ELSE mayFail - 1)
                 : x \in IF mayFail > 0 THEN WriteOutcomes ELSE {"ok"} }

\* Every way one flush() of st.adder can go, one per sequence of outcomes the
\* server gives the requests of the flush; `auto`: _append_commit called it.
Flushed(st, auto) ==
    { LET r == flush(st.adder, o)
          bad == Cardinality({k \in 1..Len(r.reqs) : r.reqs[k].out # "ok"})
      IN  [adder |-> r.b,
           lastFlush |-> [pre |-> st.adder.batch, post |-> r.b.batch,
                          reqs |-> r.reqs, exc |-> r.exc,
                          fallback |-> r.fallback, nfirst |-> r.nfirst,
                          ran |-> TRUE],
           stats |-> [st.stats EXCEPT
                        !.auto = IF auto THEN @ + 1 ELSE @,
                        !.batched = @ + 1,
                        !.failed = @ + bad,
                        \* the payloads of the batched add calls, on end
                        !.sent = @ \o r.reqs[1].docs],
           log |-> st.log \o r.reqs,
           exc |-> r.exc]
      : o \in Runs(st.adder, <<>>, MaxFailedRequests - st.stats.failed) }

\* _append_commit: flush first if the batch is at batch_size, then append.
_append_commit(st, doc) ==
    IF at_batch_size(st.adder)
    THEN { IF f.exc # "none" THEN f
           ELSE [f EXCEPT !.adder = _add_to_batch(f.adder, doc)]
           : f \in Flushed(st, TRUE) }
    ELSE { [adder |-> _add_to_batch(st.adder, doc), lastFlush |-> st.lastFlush,
            stats |-> st.stats, log |-> st.log, exc |-> "none"] }

\* for doc in docs_iter: self._append_commit(doc)
RECURSIVE append_each_unchecked(_, _)
append_each_unchecked(st, docs) ==
    IF docs = <<>>
    THEN { [adder |-> st.adder, lastFlush |-> st.lastFlush, stats |-> st.stats,
            log |-> st.log, exc |-> "none"] }
    ELSE append_each_unchecked([st EXCEPT !.adder = _add_to_batch(@, Head(docs))],
                               Tail(docs))
RECURSIVE append_each(_, _)
append_each(st, docs) ==
    IF docs = <<>>
    THEN { [adder |-> st.adder, lastFlush |-> st.lastFlush, stats |-> st.stats,
            log |-> st.log, exc |-> "none"] }
    ELSE UNION { IF r.exc # "none" THEN {r} ELSE append_each(r, Tail(docs))
                 : r \in _append_commit(st, Head(docs)) }

\* add_one: one call of _append_commit.
add_one_call(st, doc) == _append_commit(st, doc)

\* The documents a caller hands in are numbered in the order they are handed in.
NewDocs(n) == [k \in 1..n |-> stats.docs + k]

\* The adder's variables after a call that went as r.
Becomes(r, op, n) ==
    /\ adder' = r.adder
    /\ lastFlush' = IF r.stats.batched # stats.batched THEN r.lastFlush ELSE NoFlush
    /\ stats' = [r.stats EXCEPT ![op] = @ + 1, !.docs = @ + n]
    /\ lastOp' = [op |-> op, exc |-> r.exc, preLen |-> Len(adder.batch),
                  flushed |-> r.stats.batched # stats.batched]

\* The calls made so far on the adder.
OpsMade == stats.add_one + stats.add_multi + stats.flush

\* add_one(doc)
add_one ==
    /\ scope = "open"
    /\ OpsMade < MaxOps
    /\ stats.docs < MaxAdds
    /\ \E r \in add_one_call(Current, NewDocs(1)[1]) : Becomes(r, "add_one", 1)
    /\ UNCHANGED scope
    /\ UNCHANGED exceptAdd

\* add_multi(docs_iter)
add_multi ==
    /\ scope = "open"
    /\ OpsMade < MaxOps
    /\ \E n \in 0..MaxMulti :
         /\ stats.docs + n <= MaxAdds
         /\ \E r \in append_each(Current, NewDocs(n)) : Becomes(r, "add_multi", n)
    /\ UNCHANGED scope
    /\ UNCHANGED exceptAdd

\* flush(), called by the adder's user
Flush ==
    /\ scope = "open"
    /\ OpsMade < MaxOps
    /\ stats.flush < MaxFlushes
    /\ \E r \in Flushed(Current, FALSE) : Becomes(r, "flush", 0)
    /\ UNCHANGED scope
    /\ UNCHANGED exceptAdd

\* def solr_batch_adder(solr, batch_size=500, auto_commit=False): the
\* auto_commit of an adder made by the context manager with its defaults.
DefaultAutoCommit == FALSE

\* How the body of the with-block can be left: it completes, or an exception
\* (of an adder call, or of any other statement) leaves it.
Exits == {"returned", "raised"}

\* try: yield batcher / finally: batcher.flush()
\* The clause runs however the body was left.
finally_only_on_return(how) == how = "returned"
finally_runs(how) == TRUE

\* The with-block of solr_batch_adder is left: the finally clause flushes.
solr_batch_adder_exit ==
    /\ scope = "open"
    /\ OpsMade < MaxOps
    /\ \E how \in Exits :
         /\ scope' = how
         /\ IF finally_runs(how)
            THEN \E r \in Flushed(Current, FALSE) : Becomes(r, "exit", 0)
            ELSE Becomes([Current EXCEPT !.lastFlush = NoFlush] @@ [exc |-> "none"],
                         "exit", 0)
    /\ UNCHANGED exceptAdd

\* ------------------------------------------- SolrBatchAdder, two threads
\* The statements of add_one and flush, one step each, as two threads of one
\* interpreter run them on the same adder; here the server answers every
\* request.
Threads == {1, 2}

\* self.batch.append(doc)
batch_append_dropped(b, doc) == b
batch_append(b, doc) == [b EXCEPT !.batch = Append(@, doc)]

\* A thread about to call op with doc; a thread whose call has returned.
Calling(op, doc) ==
    [op |-> op, doc |-> doc, tmp |-> 0,
     pc |-> IF op = "add_one" THEN "check" ELSE "flush_send"]
Returned(th) == th.pc = "done"
Started(th) == th.pc # (IF th.op = "add_one" THEN "check" ELSE "flush_send")

\* The requests of self.solr.add(self.batch, commit=auto_commit), answered.
sent_by_flush(b) == solr_add(b.solr, b.batch, b.auto_commit, <<>>).reqs

\* Thread t runs its next statement.
thread_step(t) ==
    LET th == threads[t]
        goto(pc) == [threads EXCEPT ![t].pc = pc]
    IN  /\ ~Returned(th)
        /\ race' = [race EXCEPT
                      !.overlapped = @ \/ \E u \in Threads \ {t} :
                                         Started(threads[u]) /\ ~Returned(threads[u]),
                      !.wire = IF th.pc = "flush_send"
                               THEN @ \o sent_by_flush(adder) ELSE @]
        /\ CASE th.pc = "check" ->         \* if self.batch_len == self.batch_size:
                   /\ threads' = goto(IF at_batch_size(adder) THEN "flush_send"
                                      ELSE "append")
                   /\ UNCHANGED adder
             [] th.pc = "flush_send" ->    \* self.solr.add(self.batch, commit=...)
                   /\ threads' = goto("flush_batch")
                   /\ UNCHANGED adder
             [] th.pc = "flush_batch" ->   \* self.batch = list()
                   /\ threads' = goto("flush_len")
                   /\ adder' = [adder EXCEPT !.batch = <<>>]
             [] th.pc = "flush_len" ->     \* self.batch_len = 0
                   /\ threads' = goto(IF th.op = "add_one" THEN "append" ELSE "done")
                   /\ adder' = [adder EXCEPT !.batch_len = 0]
             [] th.pc = "append" ->        \* self.batch.append(doc)
                   /\ threads' = goto("len_read")
                   /\ adder' = batch_append(adder, th.doc)
             [] th.pc = "len_read" ->      \* self.batch_len += 1: the read
                   /\ threads' = [threads EXCEPT ![t].pc = "len_write",
                                                 ![t].tmp = adder.batch_len]
                   /\ UNCHANGED adder
             [] th.pc = "len_write" ->     \* self.batch_len += 1: the write
                   /\ threads' = goto("done")
                   /\ adder' = [adder EXCEPT !.batch_len = th.tmp + 1]
        /\ UNCHANGED <<lastFlush, lastOp, stats, scope>>
        /\ UNCHANGED <<pagVars, cliVars>>

\* No thread calls the adder.
InitThreads ==
    /\ threads = [t \in Threads |-> [op |-> "none", doc |-> 0, tmp |-> 0,
                                     pc |-> "done"]]
    /\ race = [wire |-> <<>>, overlapped |-> FALSE]

\* ------------------------------------------------------------ specifications
\* No call on a client yet.
InitClient ==
    /\ deleted = NoDelete
    /\ shaped = NoShape

InitPaginators ==
    /\ \E n \in 0..MaxDocs : serverDocs = [k \in 1..n |-> k]
    /\ rows \in 1..MaxRows
    /\ numFound = [srv \in Servers |-> Truthful]
    /\ \E m \in {None} \cup (0..MaxCeiling) : pag = <<Paginator(m)>>

InitAdder ==
    /\ \E solr \in {"Solr", "SolrJson"}, batch_size \in 1..MaxBatchSize,
          auto_commit \in BOOLEAN :
         adder = SolrBatchAdder(solr, batch_size, auto_commit)
    /\ lastFlush = NoFlush
    /\ lastOp = NoOp
    /\ stats = NoStats
    /\ scope = "open"

\* Paginators over a static index, beside an adder nobody calls.
PagInit ==
    /\ InitPaginators
    /\ adder = SolrBatchAdder("Solr", 1, TRUE)
    /\ lastFlush = NoFlush
    /\ lastOp = NoOp
    /\ stats = NoStats
    /\ scope = "open"
    /\ InitClient
    /\ InitThreads

PagNext ==
    \/ \E i \in 1..Len(pag) : next(i)
    \/ \E i \in 1..Len(pag) : len(i)
    \/ \E i \in 1..Len(pag) : iter(i)

PagSpec == PagInit /\ [][PagNext]_vars

\* Two paginators on the same query, without max_index, one on each server;
\* the second server reports a numFound that is stale (some count c at every
\* offset) or decreasing (c less the offset), and the caller's default_params
\* may hold a "start".
QueryInit ==
    /\ \E n \in 0..MaxDocs : serverDocs = [k \in 1..n |-> k]
    /\ rows \in 1..MaxRows
    /\ \E c \in 0..MaxDocs, less \in {0, 1} :
         LET stale == [k \in Offsets |-> IF c > less * k THEN c - less * k ELSE 0]
         IN  numFound = [srv \in Servers |-> IF srv = 1 THEN Truthful ELSE stale]
    /\ \E d \in {None, MaxDocs} :
         pag = [srv \in Servers |->
                  [Paginator(None) EXCEPT !.solr = srv, !.default_start = d]]
    /\ adder = SolrBatchAdder("Solr", 1, TRUE)
    /\ lastFlush = NoFlush
    /\ lastOp = NoOp
    /\ stats = NoStats
    /\ scope = "open"
    /\ InitClient
    /\ InitThreads

\* The caller makes each of its calls on the first paginator, then one on the
\* second.
QueryNext ==
    \/ \E i \in 1..Len(pag) :
         /\ CallsMade(<<pag[i]>>) = CallsMade(<<pag[3 - i]>>) - (i - 1)
         /\ next(i)
    \/ \E i \in 1..Len(pag) :
         /\ CallsMade(<<pag[i]>>) = CallsMade(<<pag[3 - i]>>) - (i - 1)
         /\ len(i)

QuerySpec == QueryInit /\ [][QueryNext]_vars

\* One adder, beside a paginator nobody calls.
AdderInit ==
    /\ InitAdder
    /\ serverDocs = <<>>
    /\ rows = 1
    /\ numFound = [srv \in Servers |-> Truthful]
    /\ pag = <<Paginator(None)>>
    /\ InitClient
    /\ InitThreads

AdderNext == add_one \/ add_multi \/ Flush \/ solr_batch_adder_exit

AdderSpec == AdderInit /\ [][AdderNext]_vars

\* The clients called directly, beside a paginator and an adder nobody calls.
ClientInit ==
    /\ InitClient
    /\ serverDocs = <<>>
    /\ rows = 1
    /\ numFound = [srv \in Servers |-> Truthful]
    /\ pag = <<Paginator(None)>>
    /\ adder = SolrBatchAdder("Solr", 1, TRUE)
    /\ lastFlush = NoFlush
    /\ lastOp = NoOp
    /\ stats = NoStats
    /\ scope = "open"
    /\ InitThreads

ClientNext == delete \/ Results_init \/ GroupedResults_init

ClientSpec == ClientInit /\ [][ClientNext]_vars

\* An adder that holds k documents, added one after the other before, and two
\* threads that each make one call on it: add_one of a new document, or flush.
ThreadInit ==
    /\ \E solr \in {"Solr", "SolrJson"}, batch_size \in 1..MaxBatchSize,
          auto_commit \in BOOLEAN, k \in 0..MaxBatchSize :
         /\ k <= batch_size
         /\ adder = [SolrBatchAdder(solr, batch_size, auto_commit) EXCEPT
                       !.batch = [j \in 1..k |-> j], !.batch_len = k]
         /\ \E ops \in [Threads -> {"add_one", "flush"}] :
              threads = [t \in Threads |-> Calling(ops[t], k + t)]
    /\ race = [wire |-> <<>>, overlapped |-> FALSE]
    /\ lastFlush = NoFlush
    /\ lastOp = NoOp
    /\ stats = NoStats
    /\ scope = "open"
    /\ InitClient
    /\ serverDocs = <<>>
    /\ rows = 1
    /\ numFound = [srv \in Servers |-> Truthful]
    /\ pag = <<Paginator(None)>>

ThreadNext == \E t \in Threads : thread_step(t)

ThreadSpec == ThreadInit /\ [][ThreadNext]_vars

\* ------------------------------------------------------------------ claims
\* The number of elements of s that satisfy Test.
Count(s, Test(_)) == Cardinality({k \in 1..Len(s) : Test(s[k])})
IsCommit(r) == r.op = "commit"
IsAdd(r) == r.op = "add"
Failed(r) == r.out # "ok"

\* C1: on a static index of N documents, with any page size, no max_index
\* and every search answered, the first N calls of next() return the N
\* documents in server order, each once, every later call signals the end of
\* the sequence, and the number of documents returned then equals
\* len(paginator).
C1_RoundTripCompleteness ==
    \A i \in 1..Len(pag) :
      LET p == pag[i]
          N == Len(serverDocs)
      IN  (p.max_index = None /\ Failures(p) = 0) =>
            /\ p.calls <= N => p.returned = SubSeq(serverDocs, 1, p.calls)
            /\ p.calls > N => p.returned = serverDocs
            /\ p.call.op = "next" =>
                 p.call.exc = (IF p.calls <= N THEN "none" ELSE "StopIteration")
            /\ (p.call.op = "next" /\ p.call.exc = "StopIteration") =>
                 Len(p.returned) = p.page.hits

\* C1 witness: three documents in pages of two, all returned, then the end.
C1_Witness ==
    /\ Len(serverDocs) = 3 /\ rows = 2
    /\ pag[1].max_index = None /\ Failures(pag[1]) = 0
    /\ pag[1].returned = <<1, 2, 3>>
    /\ pag[1].calls = 4 /\ pag[1].call.exc = "StopIteration"

\* C2: a call of next() in which a search fails ends with that error, leaves
\* exhausted false and leaves the offset where it was.
C2_FetchErrorPropagates ==
    \A i \in 1..Len(pag) :
      LET p == pag[i]
      IN  (p.call.op = "next" /\ p.call.fetchFailed) =>
            /\ p.call.exc = "SolrError"
            /\ ~p.exhausted
            /\ p.index = p.call.preIndex

C4_BufferBelowBatchSizeAfterAddOne ==
    (lastOp.op = "add_one" /\ lastOp.exc = "none") =>
       Len(adder.batch) < adder.batch_size

\* C4 as amended: add_one flushes first, exactly when the buffer already holds
\* batch_size documents, and then appends; so whenever it has returned the
\* buffer holds between 1 and batch_size documents, the last one the document
\* just added, and the flush it ran sent the batch_size documents before it.
C4_FlushesBeforeAppending ==
    lastOp.op = "add_one" =>
      /\ lastOp.flushed <=> lastOp.preLen = adder.batch_size
      /\ lastOp.flushed => /\ lastFlush.reqs[1].op = "add"
                           /\ lastFlush.reqs[1].docs = lastFlush.pre
                           /\ Len(lastFlush.pre) = adder.batch_size
      /\ lastOp.exc = "none" =>
           /\ Len(adder.batch) = (IF lastOp.flushed THEN 1 ELSE lastOp.preLen + 1)
           /\ Len(adder.batch) \in 1..adder.batch_size
           /\ adder.batch[Len(adder.batch)] = stats.docs
           /\ adder.batch_len = Len(adder.batch)

\* C4 witness: batch_size 2, the third add_one has sent [D1, D2] and left [D3].
C4_Witness ==
    /\ adder.batch_size = 2 /\ lastOp.op = "add_one" /\ lastOp.exc = "none"
    /\ stats.add_one = 3 /\ stats.add_multi = 0 /\ stats.flush = 0
    /\ lastFlush.pre = <<1, 2>> /\ lastFlush.reqs[1].docs = <<1, 2>>
    /\ adder.batch = <<3>>

\* Only add_one (and the final flush) has been called, add_one N times, and
\* every request was answered.
OnlyAddOnes == stats.add_multi = 0 /\ stats.failed = 0 /\ scope = "open"

\* C5 as stated: after N add_one calls floor(N/B) automatic flushes have run
\* and the buffer holds N mod B documents.
C5_FloorOfNOverB ==
    (OnlyAddOnes /\ stats.flush = 0) =>
       /\ stats.auto = stats.add_one \div adder.batch_size
       /\ Len(adder.batch) = stats.add_one % adder.batch_size

\* C5 as amended: after N >= 1 add_one calls floor((N-1)/B) automatic flushes
\* have run (none for N = 0) and the buffer holds the other N - B*floor((N-1)/B)
\* documents; the final explicit flush finds those and is one batched add call
\* more, floor((N-1)/B) + 1 in total.
C5_FloorOfNMinusOneOverB ==
    LET N == stats.add_one
        B == adder.batch_size
        A == IF N = 0 THEN 0 ELSE (N - 1) \div B
    IN  OnlyAddOnes =>
          /\ stats.flush = 0 => /\ stats.auto = A
                                /\ stats.batched = A
                                /\ Len(adder.batch) = N - B * A
          /\ (stats.flush = 1 /\ lastOp.op = "flush") =>
                                /\ stats.auto = A
                                /\ stats.batched = A + 1
                                /\ Len(lastFlush.pre) = N - B * A
                                /\ adder.batch = <<>>

\* C5 witness: N = 2 = B: no automatic flush, the final flush finds 2 documents.
C5_Witness ==
    /\ OnlyAddOnes /\ stats.add_one = 2 /\ adder.batch_size = 2
    /\ stats.flush = 1 /\ lastOp.op = "flush"
    /\ stats.auto = 0 /\ stats.batched = 1 /\ lastFlush.pre = <<1, 2>>

\* C6: a call of next() on a paginator that is already exhausted issues no
\* search request, and the paginator stays exhausted.
C6_ExhaustedIsTerminal ==
    \A i \in 1..Len(pag) :
      LET p == pag[i]
      IN  (p.call.op = "next" /\ p.call.preExhausted) =>
            p.call.nFetches = 0 /\ p.exhausted

\* C7: when the batched add call of flush() fails, the requests that follow it
\* begin with one add per buffered document, in buffer order, each of that one
\* document and none followed by a commit, whichever of them fail.
C7_FallbackAddsEveryDocument ==
    (lastFlush.ran /\ lastFlush.fallback) =>
      LET reqs == lastFlush.reqs
          k == lastFlush.nfirst
          n == Len(lastFlush.pre)
      IN  /\ Len(reqs) >= k + n
          /\ \A j \in 1..n : /\ reqs[k + j].op = "add"
                             /\ reqs[k + j].docs = <<lastFlush.pre[j]>>
          /\ Count(SubSeq(reqs, k + 1, Len(reqs)), IsAdd) = n

\* C7 witness: two buffered documents, both individual adds failed, both sent.
C7_Witness ==
    /\ lastFlush.ran /\ lastFlush.fallback /\ lastFlush.pre = <<1, 2>>
    /\ lastFlush.reqs[lastFlush.nfirst + 1] = Request("add", <<1>>, "error")
    /\ lastFlush.reqs[lastFlush.nfirst + 2] = Request("add", <<2>>, "timeout")

\* C8: in a flush() whose batched add request succeeds and whose commit
\* request then fails, flush() returns and every buffered document is in
\* exactly one add request.
C8_CommitFailureSendsNothingTwice ==
    (/\ lastFlush.ran
     /\ Len(lastFlush.reqs) >= 2
     /\ IsAdd(lastFlush.reqs[1]) /\ ~Failed(lastFlush.reqs[1])
     /\ IsCommit(lastFlush.reqs[2]) /\ Failed(lastFlush.reqs[2])) =>
       /\ lastFlush.exc = "none"
       /\ \A j \in 1..Len(lastFlush.pre) :
            LET Sends(r) == IsAdd(r) /\ \E m \in 1..Len(r.docs) :
                                           r.docs[m] = lastFlush.pre[j]
            IN  Count(lastFlush.reqs, Sends) = 1

\* C9: a flush() all of whose requests succeed sends one commit request if
\* auto_commit is true and none if it is false, on either client.
C9_OneCommitIffAutoCommit ==
    (lastFlush.ran /\ Count(lastFlush.reqs, Failed) = 0) =>
       /\ IsAdd(lastFlush.reqs[1])
       /\ Count(lastFlush.reqs, IsCommit) = (IF adder.auto_commit THEN 1 ELSE 0)

\* C10: after the one-by-one fall-back of flush() the requests are: one commit
\* if auto_commit is true, nothing if it is false, all individual adds being
\* before it; and if that commit times out, flush() returns and the buffer is
\* empty.
C10_OneCommitAfterFallback ==
    (lastFlush.ran /\ lastFlush.fallback) =>
      LET reqs == lastFlush.reqs
          done == lastFlush.nfirst + Len(lastFlush.pre)
          after == SubSeq(reqs, done + 1, Len(reqs))
      IN  /\ Len(after) = (IF adder.auto_commit THEN 1 ELSE 0)
          /\ \A j \in 1..Len(after) : IsCommit(after[j])
          /\ \A j \in (lastFlush.nfirst + 1)..done : IsAdd(reqs[j])
          /\ (Len(after) = 1 /\ after[1].out \in {"ok", "timeout"}) =>
               /\ lastFlush.exc = "none"
               /\ lastFlush.post = <<>>

\* C10 witness: the fall-back sent two documents, the commit after it timed
\* out, flush() returned with the buffer empty.
C10_Witness ==
    /\ lastFlush.ran /\ lastFlush.fallback /\ adder.auto_commit
    /\ Len(lastFlush.pre) = 2
    /\ Len(lastFlush.reqs) = lastFlush.nfirst + 3
    /\ lastFlush.reqs[Len(lastFlush.reqs)] = Request("commit", <<>>, "timeout")
    /\ lastFlush.exc = "none" /\ lastFlush.post = <<>>

\* C11: after every flush() the buffer is empty and batch_len is 0, however
\* the requests of the flush went.
C11_BufferEmptyAfterEveryFlush ==
    /\ lastFlush.ran => lastFlush.post = <<>>
    /\ lastOp.op = "flush" => (adder.batch = <<>> /\ adder.batch_len = 0)

\* What __iter__ of instance i leaves behind, step by step: on an exhausted
\* instance one new instance, fresh and at offset 0, every instance there was
\* left as it was; otherwise no new instance and no instance's program state
\* changed.
IterStep(i) ==
    iter(i) =>
      IF pag[i].exhausted
      THEN /\ Len(pag') = Len(pag) + 1
           /\ SubSeq(pag', 1, Len(pag)) = pag
           /\ LET q == pag'[Len(pag')]
              IN  /\ q.origin = i
                  /\ q.index = 0 /\ ~q.initialized /\ ~q.exhausted
                  /\ q.fetches = <<>> /\ q.returned = <<>>
      ELSE /\ Len(pag') = Len(pag)
           /\ \A k \in 1..Len(pag) : pag'[k] = [pag[k] EXCEPT !.call = pag'[k].call]

\* What holds of the instances __iter__ made and of those it returned as they
\* were.
IterState ==
    \A j \in 1..Len(pag) :
      LET q == pag[j]
      IN  /\ q.origin # 0 =>
               LET p == pag[q.origin]
               IN  /\ p.exhausted
                   /\ q.fetches # <<>> => q.fetches[1].start = 0
                   /\ (q.calls = 1 /\ q.lens = 0 /\ q.call.op = "next") =>
                        q.call.nFetches >= 1
                   /\ (q.calls >= 1 /\ Failures(q) = 0 /\ Failures(p) = 0) =>
                        /\ q.returned = <<>> <=> p.returned = <<>>
                        /\ q.returned # <<>> => q.returned[1] = p.returned[1]
          /\ q.call.op = "iter" =>
               /\ ~q.exhausted
               /\ q.index = q.call.preIndex
               /\ q.index = Len(q.returned)

\* C12: __iter__ of an exhausted paginator returns a new instance at offset 0
\* and leaves the original as it was; the first search of the new instance has
\* start = 0 and, on a static index whose searches are answered, its first
\* next() returns the document the original's first next() returned (or both
\* signal the end); __iter__ of a paginator that is not exhausted returns that
\* same instance, which stays where it was.
C12_IterRestartsOnlyWhenExhausted ==
    /\ []IterState
    /\ [][\A i \in 1..Len(pag) : IterStep(i)]_vars

\* C12 witness: the original returned document 1 and was exhausted; the
\* instance its __iter__ made fetched from start = 0 and returned document 1.
C12_Witness ==
    /\ Len(pag) = 2 /\ pag[2].origin = 1 /\ pag[1].exhausted
    /\ Failures(pag[1]) = 0 /\ Failures(pag[2]) = 0
    /\ pag[1].returned # <<>> /\ pag[1].returned[1] = 1
    /\ pag[2].calls = 1 /\ pag[2].call.nFetches = 1 /\ pag[2].fetches[1].start = 0
    /\ pag[2].returned = <<1>>

\* The offsets of the searches p issued, in order.
Starts(p) == [k \in 1..Len(p.fetches) |-> p.fetches[k].start]

\* C13: a paginator without max_index whose searches were all answered has,
\* once exhausted, returned the documents of the index in server order,
\* whatever the page size; so any two page sizes P1 # P2 give the same
\* flattened sequence.  Only the searches depend on the page size P: the k-th
\* has start = min((k-1)*P, N), and the call that exhausts the paginator has
\* made it max(1, ceil(N/P)) + 1 of them.
C13_BoundaryIndependence ==
    \A i \in 1..Len(pag) :
      LET p == pag[i]
          N == Len(serverDocs)
          pages == IF N = 0 THEN 1 ELSE (N + rows - 1) \div rows
      IN  (p.exhausted /\ p.max_index = None /\ Failures(p) = 0) =>
            /\ p.returned = [k \in 1..N |-> k]
            /\ \A k \in 1..Len(p.fetches) :
                 p.fetches[k].start = Min((k - 1) * rows, N)
            /\ (p.call.op = "next" /\ ~p.call.preExhausted) =>
                 Len(p.fetches) = pages + 1

\* C13 witness: three documents in pages of two: searches at 0, 2 and 3.
C13_Witness ==
    /\ Len(serverDocs) = 3 /\ rows = 2
    /\ pag[1].exhausted /\ pag[1].max_index = None /\ Failures(pag[1]) = 0
    /\ pag[1].call.op = "next" /\ ~pag[1].call.preExhausted
    /\ Starts(pag[1]) = <<0, 2, 3>>
    /\ pag[1].returned = <<1, 2, 3>>

\* C14: with max_index = M, a next() called when more than M documents have
\* been returned signals the end of the sequence and issues no search, and no
\* earlier call is stopped while documents remain; so at most M + 1 documents
\* are returned; and len() returns the server's hit count all the same.
C14_MaxIndexStopsWithoutSearch ==
    \A i \in 1..Len(pag) :
      LET p == pag[i]
          M == p.max_index
      IN  M # None =>
            /\ Len(p.returned) <= M + 1
            /\ p.index = Len(p.returned)
            /\ p.call.op = "next" =>
                 /\ p.call.preIndex > M =>
                      /\ p.call.exc = "StopIteration"
                      /\ p.call.nFetches = 0
                      /\ p.index = p.call.preIndex
                 /\ (/\ p.call.preIndex <= M
                     /\ p.call.preIndex < Len(serverDocs)
                     /\ ~p.call.fetchFailed) => p.call.exc = "none"
            /\ (p.call.op = "len" /\ p.call.exc = "none") =>
                 p.page.hits = Len(serverDocs)

\* C14 witness: max_index = 1 on three documents: two returned, the third
\* next() stopped with no search, the hit count still 3.
C14_Witness ==
    /\ Len(serverDocs) = 3 /\ pag[1].max_index = 1
    /\ pag[1].returned = <<1, 2>>
    /\ pag[1].call.op = "next" /\ pag[1].call.exc = "StopIteration"
    /\ pag[1].call.nFetches = 0 /\ ~pag[1].exhausted
    /\ pag[1].lens >= 1 /\ pag[1].page.hits = 3

\* The searches p had issued before its most recent call, and whether one of
\* them was answered.
FetchesBefore(p) == SubSeq(p.fetches, 1, Len(p.fetches) - p.call.nFetches)
FetchedBefore(p) ==
    \E k \in 1..Len(FetchesBefore(p)) : FetchesBefore(p)[k].out = "ok"

\* C15: len(paginator) issues one search, with start = 0, if no page was
\* fetched before and none otherwise, and returns the hit count of the page
\* fetched last; and the first next() called after a len() issues no search.
C15_LenFetchesOnceNextReuses ==
    \A i \in 1..Len(pag) :
      LET p == pag[i]
      IN  /\ p.call.op = "len" =>
               /\ p.call.nFetches = (IF FetchedBefore(p) THEN 0 ELSE 1)
               /\ p.call.nFetches = 1 => p.fetches[Len(p.fetches)].start = 0
               /\ p.call.exc = "none" => p.page.hits = Len(serverDocs)
          /\ (p.call.op = "next" /\ p.calls = 1 /\ FetchedBefore(p)) =>
               p.call.nFetches = 0

\* C16: on a static index every len(paginator) that returns, returns the same
\* value, the number of documents matching: before the first next(), between
\* two of them, and after the paginator is exhausted.
C16_LenIsConstant ==
    \A i \in 1..Len(pag) :
      LET p == pag[i]
      IN  /\ p.initialized => p.page.hits = Len(serverDocs)
          /\ (p.call.op = "len" /\ p.call.exc = "none") =>
               /\ p.initialized
               /\ p.page.hits = Len(serverDocs)

\* C16 witness: len() before, between and after the two next() calls that
\* exhaust a paginator over one document.
C16_Witness ==
    /\ Len(serverDocs) = 1
    /\ pag[1].lens = 3 /\ pag[1].calls = 2 /\ pag[1].exhausted
    /\ pag[1].call.op = "len" /\ pag[1].call.exc = "none"
    /\ pag[1].call.nFetches = 0 /\ Len(pag[1].fetches) = 2
    /\ pag[1].page.hits = 1 /\ pag[1].page.docs = <<>>

\* The step that leaves the with-block runs flush() once, on the buffer as
\* the body left it: one batched add request with every buffered document.
ExitStep ==
    (scope = "open" /\ scope' # "open") =>
      /\ stats'.batched = stats.batched + 1
      /\ stats'.exit = 1
      /\ lastFlush'.ran /\ lastFlush'.pre = adder.batch
      /\ lastFlush'.reqs[1].op = "add" /\ lastFlush'.reqs[1].docs = adder.batch

\* Once the with-block is left, the last call on the adder is the flush() of
\* the finally clause, and no call follows it.
ExitState ==
    scope # "open" =>
      /\ lastOp.op = "exit" /\ lastOp.flushed /\ lastFlush.ran
      /\ Len(lastFlush.pre) = lastOp.preLen
      /\ \A j \in 1..Len(lastFlush.pre) :
           \E k \in 1..Len(lastFlush.reqs) :
             /\ IsAdd(lastFlush.reqs[k])
             /\ \E m \in 1..Len(lastFlush.reqs[k].docs) :
                  lastFlush.reqs[k].docs[m] = lastFlush.pre[j]

\* C17: however the body of the solr_batch_adder block is left, by completing
\* or by an exception, flush() runs exactly once after it, and every document
\* in the buffer at that moment is sent to the server in an add request.
C17_ExitFlushesOnce ==
    /\ []ExitState
    /\ [][ExitStep]_vars

\* C17 witness: the body was left by an exception with [D3] in the buffer,
\* and the flush of the finally clause sent [D3].
C17_Witness ==
    /\ scope = "raised" /\ adder.batch_size = 2 /\ stats.add_one = 3
    /\ lastOp.op = "exit" /\ lastFlush.ran
    /\ lastFlush.pre = <<3>>
    /\ lastFlush.reqs[1] = Request("add", <<3>>, "ok")

\* C18: when the block of a solr_batch_adder made with the default
\* auto_commit is left, the requests of the exit end with a commit.
C18_DefaultScopeCommitsAtExit ==
    (scope # "open" /\ adder.auto_commit = DefaultAutoCommit) =>
      /\ lastFlush.ran
      /\ IsCommit(lastFlush.reqs[Len(lastFlush.reqs)])

\* for doc in docs: batcher.add_one(doc) -- the caller's own loop of add_one
\* calls, which the first call that raises ends.
RECURSIVE add_one_each(_, _)
add_one_each(st, docs) ==
    IF docs = <<>> THEN {st @@ [exc |-> "none"]}
    ELSE UNION { IF r.exc # "none" THEN {r}
                 ELSE add_one_each([k \in DOMAIN st |-> r[k]], Tail(docs))
                 : r \in add_one_call(st, Head(docs)) }

\* What the caller and the server see of a call that went as r.
Observed(r) == [batch |-> r.adder.batch, batch_len |-> r.adder.batch_len,
                sent |-> r.log, exc |-> r.exc]

\* C19: from every state in which add_multi(docs) can be called, add_multi(docs)
\* and add_one called for each document of docs in order can go in the same
\* ways: the same requests in the same order (those of the flushes in between
\* included), the same buffer at the end, the same exception if a flush
\* raises.
C19_AddMultiIsAddOneEach ==
    (scope = "open" /\ OpsMade < MaxOps) =>
      \A n \in 0..MaxMulti :
        stats.docs + n <= MaxAdds =>
          {Observed(r) : r \in append_each(Current, NewDocs(n))}
            = {Observed(r) : r \in add_one_each(Current, NewDocs(n))}

\* C19 witness: batch_size 2, [D1] buffered; add_multi([D2, D3]) has sent
\* [D1, D2] in between and left [D3].
C19_Witness ==
    /\ adder.batch_size = 2 /\ stats.add_one = 1 /\ stats.add_multi = 1
    /\ lastOp.op = "add_multi" /\ lastOp.exc = "none" /\ lastOp.preLen = 1
    /\ lastOp.flushed /\ lastFlush.pre = <<1, 2>>
    /\ adder.batch = <<3>>

\* C20: in every state reached by add_one, add_multi and flush calls made one
\* after the other, whichever requests fail, the buffer holds at most
\* batch_size documents, and batch_len is their number.
C20_BufferAtMostBatchSize ==
    /\ Len(adder.batch) <= adder.batch_size
    /\ adder.batch_len = Len(adder.batch)

\* C20 witness: the buffer holds batch_size = 2 documents after an add_one
\* whose flush raised: the buffer was kept and the new document not added.
C20_Witness ==
    /\ adder.batch_size = 2 /\ adder.batch = <<1, 2>>
    /\ lastOp.op = "add_one" /\ lastOp.exc # "none" /\ lastOp.flushed
    /\ stats.docs = 3

\* C21: a delete() given both id and q, or neither, ends with ValueError and
\* has sent no request, on either client; given exactly one of them its first
\* request is the delete, by id or by query as given, and a commit request
\* follows exactly when commit is true and the delete request was answered.
C21_DeleteChecksArgumentsFirst ==
    deleted.client # "none" =>
      LET both == deleted.id # None /\ deleted.q # None
          neither == deleted.id = None /\ deleted.q = None
          reqs == deleted.reqs
      IN  /\ (both \/ neither) => (deleted.exc = "ValueError" /\ reqs = <<>>)
          /\ ~(both \/ neither) =>
               /\ deleted.exc # "ValueError"
               /\ Len(reqs) >= 1
               /\ reqs[1].op = "delete"
               /\ reqs[1].docs = <<IF deleted.id # None THEN [id |-> deleted.id]
                                   ELSE [q |-> deleted.q]>>
               /\ Count(reqs, LAMBDA r : r.op = "delete") = 1
               /\ Len(reqs) = (IF deleted.commit /\ ~Failed(reqs[1]) THEN 2 ELSE 1)
               /\ Len(reqs) = 2 => IsCommit(reqs[2])
               /\ deleted.exc = Raised(reqs[Len(reqs)].out)

\* C21 witness: SolrJson.delete(id=1, q=2) has raised ValueError and sent
\* nothing.
C21_Witness ==
    /\ deleted.client = "SolrJson" /\ deleted.id = 1 /\ deleted.q = 2
    /\ deleted.exc = "ValueError" /\ deleted.reqs = <<>>

\* A document of an add_one call is lost when it is neither in the buffer nor
\* in any add request sent, so that no flush to come can send it.
InWire(d) ==
    \E k \in 1..Len(race.wire) :
      /\ IsAdd(race.wire[k])
      /\ \E m \in 1..Len(race.wire[k].docs) : race.wire[k].docs[m] = d
InBuffer(d) == \E j \in 1..Len(adder.batch) : adder.batch[j] = d
AllReturned == \A t \in Threads : Returned(threads[t])
LostDocument ==
    \E t \in Threads :
      /\ threads[t].op = "add_one"
      /\ ~InWire(threads[t].doc) /\ ~InBuffer(threads[t].doc)

\* C22: two calls on one adder that run one after the other lose no document
\* and leave at most batch_size documents in the buffer; a document added and
\* then sent by no flush, or a buffer above batch_size, comes only of calls of
\* two threads that overlapped -- and such interleavings exist (C22_Witness).
C22_OnlyOverlappingCallsBreakTheAdder ==
    (AllReturned /\ ~race.overlapped) =>
       /\ ~LostDocument
       /\ Len(adder.batch) <= adder.batch_size
       /\ adder.batch_len = Len(adder.batch)

\* C22 witness: thread 1 is in flush() and has sent [D1]; thread 2's add_one
\* appends D2; thread 1 then replaces the buffer: D2 was added, was sent by no
\* request, and is in no buffer.
C22_Witness ==
    /\ AllReturned /\ race.overlapped
    /\ threads[1].op = "flush" /\ threads[2].op = "add_one"
    /\ InWire(1) /\ ~InWire(threads[2].doc)
    /\ LostDocument
    /\ adder.batch = <<>>

\* The other outcome: both threads find room in the buffer before either
\* appends, and the buffer ends above batch_size.
C22_BufferAboveBatchSize ==
    AllReturned /\ Len(adder.batch) > adder.batch_size

\* What a caller sees of a paginator, and what the server saw of it, the
\* hit count aside.
Blind(p) ==
    [starts |-> Starts(p), returned |-> p.returned, exhausted |-> p.exhausted,
     index |-> p.index, docs |-> p.page.docs, exc |-> p.call.exc]

\* C23: two paginators on servers that hold the same documents and report
\* different hit counts, after the same calls with every search answered,
\* have issued the same searches and returned the same documents; the one
\* told a stale or decreasing count goes on past it, and is exhausted only by
\* an empty page, having returned every document.
C23_HitCountNeverEndsIteration ==
    LET a == pag[1]
        b == pag[2]
    IN  (/\ a.calls = b.calls /\ a.lens = b.lens /\ a.call.op = b.call.op
         /\ Failures(a) = 0 /\ Failures(b) = 0) =>
           /\ Blind(a) = Blind(b)
           /\ b.exhausted =>
                /\ b.returned = serverDocs
                /\ b.fetches[Len(b.fetches)].start >= Len(serverDocs)
           /\ (b.call.op = "next" /\ b.call.preIndex < Len(serverDocs)) =>
                b.call.exc = "none"

\* C23 witness: the second server reports no hit at all for two documents in
\* pages of one; both paginators return the two documents and both search at
\* 0 and 1, offsets at or above the count the second was told.
C23_Witness ==
    /\ Len(serverDocs) = 2 /\ rows = 1
    /\ numFound[2][0] = 0 /\ numFound[1][0] = 2
    /\ pag[1].calls = 2 /\ pag[2].calls = 2 /\ pag[1].lens = 0 /\ pag[2].lens = 0
    /\ Failures(pag[1]) = 0 /\ Failures(pag[2]) = 0
    /\ pag[2].returned = <<1, 2>> /\ Starts(pag[2]) = <<0, 1>>
    /\ pag[2].page.hits = 0 /\ pag[1].page.hits = 2

\* C25: in every state of a paginator, index is the number of documents its
\* next() calls have returned, and every search it has issued carried as
\* start the number returned when it was issued -- 0 for the first --
\* whatever "start" the caller's default parameters hold.
C25_IndexCountsReturnedAndIsStart ==
    \A i \in 1..Len(pag) :
      LET p == pag[i]
      IN  /\ p.index = Len(p.returned)
          /\ \A k \in 1..Len(p.fetches) : p.fetches[k].start = p.fetches[k].at
          /\ p.fetches # <<>> => p.fetches[1].start = 0

\* C25 witness: default parameters with a start of their own, three documents
\* in pages of two: the searches start at 0 and at 2, three documents returned.
C25_Witness ==
    /\ pag[1].default_start = MaxDocs
    /\ Len(serverDocs) = 3 /\ rows = 2
    /\ Starts(pag[1]) = <<0, 2>>
    /\ pag[1].returned = <<1, 2, 3>> /\ pag[1].index = 3

\* C24: building a Results or a GroupedResults never fails on an absent
\* part of the answer: a Results has {} for an absent highlighting,
\* facet_counts or spellcheck and [] and 0 for an absent response; a
\* GroupedResults is built without error when 'grouped' is absent, and a
\* group without 'doclist' has an empty document list, never None.
C24_AbsentPartsBecomeEmpty ==
    /\ shaped.kind = "Results" =>
         LET resp == shaped.resp
             out == shaped.out
         IN  /\ out.exc = "none"
             /\ "highlighting" \notin resp.keys => out.highlighting = {}
             /\ "facet_counts" \notin resp.keys => out.facets = {}
             /\ "spellcheck" \notin resp.keys => out.spellcheck = {}
             /\ "response" \notin resp.keys =>
                  out.docs = Val(<<>>) /\ out.hits = Val(0)
    /\ shaped.kind = "GroupedResults" =>
         LET resp == shaped.resp
             out == shaped.out
         IN  /\ out.exc = "none"
             /\ \A name \in DOMAIN out.docs :
                  /\ out.docs[name].docs # Null
                  /\ ~resp.grouped[name].has_doclist =>
                       out.docs[name].docs = Val(<<>>)

\* The searches of p that were answered with a page of no documents.
EmptyPages(p) ==
    Cardinality({k \in 1..Len(p.fetches) :
                   /\ p.fetches[k].out = "ok"
                   /\ p.fetches[k].start >= Len(serverDocs)})

\* C26: a paginator without max_index, iterated by next() alone with every
\* search answered, has, at the call that exhausts it, issued exactly one
\* search that was answered with an empty page, for every N >= 0: one search
\* in all when N = 0, searches at 0, 1, 2 when N = 2 and the page size is 1.
C26_OneEmptyPageEndsIteration ==
    \A i \in 1..Len(pag) :
      LET p == pag[i]
          N == Len(serverDocs)
      IN  (/\ p.max_index = None /\ p.lens = 0 /\ Failures(p) = 0
           /\ p.exhausted /\ p.call.op = "next" /\ ~p.call.preExhausted) =>
            /\ EmptyPages(p) = 1
            /\ N = 0 => Len(p.fetches) = 1
            /\ (N = 2 /\ rows = 1) => Starts(p) = <<0, 1, 2>>

\* C27: while every write succeeds, the payloads of the batched add calls,
\* put end to end, followed by the buffer, are the documents added, in the
\* order they were added: none lost, none twice, none out of place; so after
\* a call that ends with a flush the payloads alone are the documents added,
\* and the adder takes further add and flush calls the same way.
C27_BatchingKeepsEveryDocumentInOrder ==
    stats.failed = 0 =>
      /\ stats.sent \o adder.batch = [k \in 1..stats.docs |-> k]
      /\ (lastOp.op \in {"flush", "exit"} /\ lastOp.exc = "none") =>
           /\ adder.batch = <<>> /\ adder.batch_len = 0
           /\ stats.sent = [k \in 1..stats.docs |-> k]

\* C27 witness: a document added and flushed, then the same adder used again:
\* a second document added and flushed, each sent once, in order.
C27_Witness ==
    /\ stats.failed = 0 /\ stats.flush = 1 /\ stats.exit = 1
    /\ stats.batched = 2 /\ stats.docs = 2
    /\ stats.sent = <<1, 2>>
    /\ lastFlush.pre = <<2>> /\ adder.batch = <<>>

\* p has returned more documents than its max_index: its next() stops at the
\* ceiling.
AtCeiling(p) == p.max_index # None /\ p.index > p.max_index

\* What holds of a paginator at its ceiling: a next() called there signalled
\* the end, issued no search and changed neither exhausted nor index; none of
\* its searches having failed, it is not exhausted; and not exhausted, it is
\* the origin of no other instance.
CeilingState ==
    \A i \in 1..Len(pag) :
      LET p == pag[i]
      IN  /\ (p.max_index # None /\ p.call.op = "next"
               /\ p.call.preIndex > p.max_index) =>
                /\ p.call.exc = "StopIteration" /\ p.call.nFetches = 0
                /\ p.exhausted = p.call.preExhausted
                /\ p.index = p.call.preIndex
          /\ (AtCeiling(p) /\ Failures(p) = 0) => ~p.exhausted
          /\ (AtCeiling(p) /\ ~p.exhausted) =>
                \A j \in 1..Len(pag) : pag[j].origin # i

\* __iter__ of a paginator at its ceiling and not exhausted: the same
\* instance, nothing made, nothing fetched, nothing moved.
CeilingStep(i) ==
    (iter(i) /\ AtCeiling(pag[i]) /\ ~pag[i].exhausted) =>
      /\ Len(pag') = Len(pag)
      /\ \A k \in 1..Len(pag) : pag'[k] = [pag[k] EXCEPT !.call = pag'[k].call]
      /\ ~pag'[i].exhausted /\ AtCeiling(pag'[i])

\* C28: a paginator stopped by its max_index ceiling is not marked exhausted
\* by the stop; iterating over it again returns the same instance, and every
\* later next() signals the end again without a search.
C28_CeilingStopIsNotExhaustion ==
    /\ []CeilingState
    /\ [][\A i \in 1..Len(pag) : CeilingStep(i)]_vars

\* C28 witness: max_index = 0 on two documents: one returned, then two
\* next() calls stopped at the ceiling with no search, the paginator not
\* exhausted and still the only instance.
C28_Witness ==
    /\ Len(serverDocs) = 2 /\ pag[1].max_index = 0
    /\ pag[1].returned = <<1>> /\ pag[1].calls = 3
    /\ Len(pag[1].fetches) = 1
    /\ pag[1].call.op = "next" /\ pag[1].call.exc = "StopIteration"
    /\ ~pag[1].exhausted /\ Len(pag) = 1

\* C29: the instance __iter__ makes from an exhausted paginator has the
\* configuration of the original, its max_index included, so it returns at
\* most max_index + 1 documents if the original was constructed with one.
C29_RestartKeepsMaxIndex ==
    \A j \in 1..Len(pag) :
      LET q == pag[j]
      IN  q.origin # 0 =>
            LET p == pag[q.origin]
            IN  /\ q.solr = p.solr /\ q.default_start = p.default_start
                /\ q.max_index = p.max_index
                /\ p.max_index # None => Len(q.returned) <= p.max_index + 1
=============================================================================
